---- MODULE Spec2Model ----
(***************************************************************************)
(* Model of the sampling library: the domains (src/src/domain.rs,          *)
(* src/src/randvar.rs) and the inverse-transform, slice and Gibbs samplers *)
(* (src/src/sampler.rs).                                                   *)
(***************************************************************************)
EXTENDS Integers, Sequences, FiniteSets, TLC

VARIABLES
  \* domain.rs / randvar.rs: the domain type under test, its parameter N,
  \* the output of traverse() / iter() and the last uniform() / random() draw
  dty, dn, trav, draw,
  \* sampler.rs, univar::icdf: the standard library's binary search in use,
  \* the domain size, the density, the sampler's table, the stage of the
  \* call (new / sampler / panic), the last draw, the index found, the last
  \* item returned by next()
  build, icdf_n, icdf_pdf, cdf, icdf_st, icdf_u, icdf_pos, icdf_ret,
  \* sampler.rs, univar::slice and multivar::gibbs behind std::iter::Skip:
  \* the method sampled, the skip count given to it, the density, and the
  \* Sampler's state; pc is the place reached inside Sampler::next() and
  \* ret its last return value
  method, skip, pdf, state, pc, ret,
  \* slice::Sampler::next(): the state cur (x) whose density is matched, the
  \* auxiliary level y, the last candidate skipped, the state the pull
  \* started with, whether the arm `_ => self.next()` was taken
  cur, level, rejected, start, recursed,
  \* gibbs::global::Sampler::next(): the index of the coordinate visited,
  \* the array `state` being written through `value`, the values collected
  \* for new_state, the coordinates a sub-sampler was built for (in order)
  \* and those whose value came from the fallback D::uniform().next()
  idx, work, new_state, visited, fell, seen,
  \* std::iter::Skip: its field n, the inner next() calls the caller's pull
  \* still has to make, the inner next() calls completed, the caller's
  \* pulls completed, the last item delivered, the caller's stage
  skip_n, todo, steps, pulls, out, cst

dom_vars == <<dty, dn, trav, draw>>
icdf_vars == <<build, icdf_n, icdf_pdf, cdf, icdf_st, icdf_u, icdf_pos, icdf_ret>>
slice_vars == <<cur, level, rejected, start, recursed>>
gibbs_vars == <<idx, work, new_state, visited, fell, seen>>
skip_vars == <<skip_n, todo, steps, pulls, out, cst>>
chain_vars == <<method, skip, pdf, state, pc, ret, slice_vars, gibbs_vars, skip_vars>>
vars == <<dom_vars, icdf_vars, chain_vars>>

(***************************************************************************)
(* Bounds of the model.                                                    *)
(***************************************************************************)
\* Largest const parameter N of X<N> / Z<N> that is explored.
MaxN == 3
\* Resolution of the continuous draw gen_range(0.0..1.0): multiples of 1/Res.
Res == 6
\* Largest skip count given to Slice::new / gibbs.
MaxSkip == 2
\* Number of items the caller pulls from one sequence.
MaxPulls == 2
\* Number of coordinates of the array the Gibbs sampler works on.
MaxLen == 2

None == [tag |-> "None"]
Some(x) == [tag |-> "Some", val |-> x]

(***************************************************************************)
(* f64.  A finite value is an integer count of a fixed unit; NaN and       *)
(* +infinity are separate values.  Comparisons with NaN are false, as in   *)
(* IEEE 754.                                                               *)
(***************************************************************************)
Fin(v) == [k |-> "fin", v |-> v]
NaN == [k |-> "nan", v |-> 0]
PInf == [k |-> "inf", v |-> 0]

is_finite(a) == a.k = "fin"

\* a + b
FAdd(a, b) ==
  IF a.k = "nan" \/ b.k = "nan" THEN NaN
  ELSE IF a.k = "inf" \/ b.k = "inf" THEN PInf
  ELSE Fin(a.v + b.v)

\* a < b
FLt(a, b) ==
  IF a.k = "nan" \/ b.k = "nan" THEN FALSE
  ELSE IF a.k = "inf" THEN FALSE
  ELSE IF b.k = "inf" THEN TRUE
  ELSE a.v < b.v

\* a > b
FGt(a, b) == FLt(b, a)

\* a >= b
FGe(a, b) ==
  IF a.k = "nan" \/ b.k = "nan" THEN FALSE
  ELSE IF a.k = "inf" THEN TRUE
  ELSE IF b.k = "inf" THEN FALSE
  ELSE a.v >= b.v

\* a.partial_cmp(&b): None when either is NaN
partial_cmp(a, b) ==
  IF a.k = "nan" \/ b.k = "nan" THEN None
  ELSE IF FLt(a, b) THEN Some("Less")
  ELSE IF FGt(a, b) THEN Some("Greater")
  ELSE Some("Equal")

(***************************************************************************)
(* Domains.                                                                *)
(***************************************************************************)
\* The half-open range lo..hi of Rust, as a sequence.
RangeSeq(lo, hi) == [i \in 1..(IF hi > lo THEN hi - lo ELSE 0) |-> lo + i - 1]

SeqRange(s) == {s[i] : i \in 1..Len(s)}

\* <$Num>::MIN and <$Num>::MAX of the 8-bit integer types
NumMIN(ty) == IF ty = "u8" THEN 0 ELSE -128
NumMAX(ty) == IF ty = "u8" THEN 255 ELSE 127

\* impl_domain!: gen.gen::<$Num>() draws any value of the type
NumUniform(ty) == NumMIN(ty)..NumMAX(ty)

\* impl_finite!: (<$Num>::MIN)..(<$Num>::MAX)
NumTraverse(ty) == RangeSeq(NumMIN(ty), NumMAX(ty))

\* integer::X<N>: X(gen.gen_range(0..N))
IntXUniform(n) == 0..(n - 1)

\* integer::X<N>: (0..N).map(X)
IntXTraverse(n) == RangeSeq(0, n)

RECURSIVE Gcd(_, _)
Gcd(a, b) == IF b = 0 THEN a ELSE Gcd(b, a % b)

\* The f64 quotient a / b of two integers held exactly, in lowest terms.
Quot(a, b) == LET g == Gcd(a, b) IN IF g = 0 THEN <<0, 1>> ELSE <<a \div g, b \div g>>

\* (value * N as f64).floor() for value = j / Res
FloorMul(j, n) == (j * n) \div Res

\* float::X<N>: value = gen.gen_range(0.0..1.0); X((value * N).floor() / N)
FloatXUniformAs(n) == {Quot(FloorMul(j, n), n) : j \in 0..Res}
FloatXUniform(n) == {Quot(FloorMul(j, n), n) : j \in 0..(Res - 1)}

\* float::X<N>: (0..N).map(|x| X(x as f64 / N as f64))
FloatXTraverse(n) == [i \in 1..n |-> Quot(RangeSeq(0, n)[i], n)]

\* modular::Z<N>: Some(gen.gen_range(0..N)).map(Z)
ZRandom(n) == 0..(n - 1)

\* modular::Z<N>: (0..N).map(Z)
ZIter(n) == RangeSeq(0, n)

DomTypes == {"u8", "i8", "IntX", "FloatX", "Z"}
NumTypes == {"u8", "i8"}

\* Finite::traverse() / Discrete::iter() of the domain type
Traverse(ty, n) ==
  CASE ty \in NumTypes -> NumTraverse(ty)
    [] ty = "IntX" -> IntXTraverse(n)
    [] ty = "FloatX" -> FloatXTraverse(n)
    [] ty = "Z" -> ZIter(n)

\* The values Domain::uniform() / Domain::random() of the domain type can yield
Uniform(ty, n) ==
  CASE ty \in NumTypes -> NumUniform(ty)
    [] ty = "IntX" -> IntXUniform(n)
    [] ty = "FloatX" -> FloatXUniform(n)
    [] ty = "Z" -> ZRandom(n)

\* D::traverse() collected
DomTraverse ==
  /\ trav = None
  /\ trav' = Some(Traverse(dty, dn))
  /\ UNCHANGED <<dty, dn, draw, icdf_vars, chain_vars>>

\* one item of D::uniform()
DomUniform ==
  /\ \E v \in Uniform(dty, dn) : draw' = Some(v)
  /\ UNCHANGED <<dty, dn, trav, icdf_vars, chain_vars>>

DomNext == DomTraverse \/ DomUniform

(***************************************************************************)
(* univar::icdf, the inverse-transform sampler, over the domain X<N>.      *)
(***************************************************************************)
Ok(i) == [tag |-> "Ok", pos |-> i]
Err(i) == [tag |-> "Err", pos |-> i]
Panic == [tag |-> "Panic", pos |-> 0]

\* The comparator of next(): p.partial_cmp(&value).unwrap() ("Panic" when None)
CmpEntry(entry, value) ==
  LET c == partial_cmp(entry[2], value) IN
  IF c = None THEN "Panic" ELSE c.val

\* One probe of the search: the index probed and the comparator's answer
ProbeAt(s, value, mid) == <<mid, CmpEntry(s[mid + 1], value)>>

\* slice::binary_search_by as in Rust 1.52 to 1.81: returns at the first Equal probe
RECURSIVE BsEarly(_, _, _, _)
BsEarly(s, value, left, right) ==
  IF left >= right THEN Err(left)
  ELSE CHOOSE r \in
         { CASE p[2] = "Panic" -> Panic
             [] p[2] = "Less" -> BsEarly(s, value, p[1] + 1, right)
             [] p[2] = "Greater" -> BsEarly(s, value, left, p[1])
             [] p[2] = "Equal" -> Ok(p[1])
           : p \in {ProbeAt(s, value, left + ((right - left) \div 2))} } : TRUE

\* The loop of slice::binary_search_by before Rust 1.52 and from 1.82 on
RECURSIVE BsLoop(_, _, _, _)
BsLoop(s, value, base, size) ==
  IF size <= 1 THEN Ok(base)
  ELSE CHOOSE r \in
         { IF p[2] = "Panic" THEN Panic
           ELSE BsLoop(s, value, IF p[2] = "Greater" THEN base ELSE p[1],
                       size - (size \div 2))
           : p \in {ProbeAt(s, value, base + (size \div 2))} } : TRUE

BsBranchless(s, value) ==
  IF Len(s) = 0 THEN Err(0)
  ELSE CHOOSE r \in
         { IF b = Panic THEN Panic
           ELSE CHOOSE q \in
                  { CASE p[2] = "Panic" -> Panic
                      [] p[2] = "Equal" -> Ok(p[1])
                      [] p[2] = "Less" -> Err(p[1] + 1)
                      [] p[2] = "Greater" -> Err(p[1])
                    : p \in {ProbeAt(s, value, b.pos)} } : TRUE
           : b \in {BsLoop(s, value, 0, Len(s))} } : TRUE

Builds == {"early", "branchless"}

\* self.cdf.binary_search_by(|(_value, p)| p.partial_cmp(&value).unwrap())
binary_search_by(b, s, value) ==
  IF b = "early" THEN BsEarly(s, value, 0, Len(s)) ELSE BsBranchless(s, value)

\* The running sums of .scan(0.0, |c, (x, p)| { *c = *c + p; ... })
RECURSIVE ScanSum(_, _)
ScanSum(ps, i) == IF i = 0 THEN Fin(0) ELSE FAdd(ScanSum(ps, i - 1), ps[i])

\* assert!(c.is_finite(), "PDF overflow") fails at some entry
ScanPanicsAs(ps) == \E i \in 1..Len(ps) : ScanSum(ps, i).k = "nan"
ScanPanics(ps) == \E i \in 1..Len(ps) : ~is_finite(ScanSum(ps, i))

\* The collected table: (x, running sum) in traversal order
BuildCdf(xs, ps) == [i \in 1..Len(xs) |-> <<xs[i], ScanSum(ps, i)>>]

\* The values the density may take at a point (finite ones in half units)
IcdfWeights == {Fin(0), Fin(2), Fin(4), NaN, PInf}

\* self.sum.gen_range(0.0..sum): any value of [0, sum)
GenRange(sum) == {Fin(j) : j \in 0..(sum.v - 1)}

\* Method::sample(pdf), the assertion failing
IcdfSamplePanic ==
  /\ icdf_st = "new"
  /\ ScanPanics(icdf_pdf)
  /\ icdf_st' = "panic"
  /\ UNCHANGED <<build, icdf_n, icdf_pdf, cdf, icdf_u, icdf_pos, icdf_ret, dom_vars, chain_vars>>

\* Method::sample(pdf), returning the Sampler
IcdfSample ==
  /\ icdf_st = "new"
  /\ ~ScanPanics(icdf_pdf)
  /\ cdf' = BuildCdf(IntXTraverse(icdf_n), icdf_pdf)
  /\ icdf_st' = "sampler"
  /\ UNCHANGED <<build, icdf_n, icdf_pdf, icdf_u, icdf_pos, icdf_ret, dom_vars, chain_vars>>

\* cdf.get(pos).map(|(value, _p)| value.clone())
GetValue(s, pos) == IF pos < Len(s) THEN Some(s[pos + 1][1]) ELSE None

\* Sampler::next(), the arm sum > 0.0
IcdfNextDraw ==
  /\ icdf_st = "sampler"
  /\ FGt(cdf[Len(cdf)][2], Fin(0))
  /\ \E value \in GenRange(cdf[Len(cdf)][2]) :
       LET pos == binary_search_by(build, cdf, value) IN
       /\ pos # Panic
       /\ icdf_u' = Some(value)
       /\ icdf_pos' = Some(pos.pos)
       /\ icdf_ret' = Some(GetValue(cdf, pos.pos))
  /\ UNCHANGED <<build, icdf_n, icdf_pdf, cdf, icdf_st, dom_vars, chain_vars>>

\* Sampler::next(), the arm _ => None
IcdfNextNone ==
  /\ icdf_st = "sampler"
  /\ ~FGt(cdf[Len(cdf)][2], Fin(0))
  /\ icdf_u' = None
  /\ icdf_pos' = None
  /\ icdf_ret' = Some(None)
  /\ UNCHANGED <<build, icdf_n, icdf_pdf, cdf, icdf_st, dom_vars, chain_vars>>

IcdfNext == IcdfSamplePanic \/ IcdfSample \/ IcdfNextDraw \/ IcdfNextNone

(***************************************************************************)
(* std::iter::Skip around a chain sampler, and the caller pulling from it. *)
(***************************************************************************)
Unset == [tag |-> "Unset"]

\* The domain of the chain samplers: X<N> with N = MaxN
ChainDom == IntXUniform(MaxN)

\* Skip::next(): n > 0 ? self.iter.nth(take(&mut self.n)) : self.iter.next();
\* nth(n) calls next() n times and once more.
SkipCallsAs(n) == IF n > 0 THEN n ELSE 1
SkipCalls(n) == IF n > 0 THEN n + 1 ELSE 1

\* The caller asks the sequence for its next item.
SkipNext ==
  /\ cst = "ready"
  /\ pulls < MaxPulls
  /\ todo' = SkipCalls(skip_n)
  /\ skip_n' = 0
  /\ cst' = "pulling"
  /\ UNCHANGED <<steps, pulls, out>>
  /\ UNCHANGED <<method, skip, pdf, state, pc, ret, slice_vars, gibbs_vars>>
  /\ UNCHANGED <<dom_vars, icdf_vars>>

\* The inner Sampler::next() returns item r: Skip passes the last one on.
InnerReturn(r) ==
  /\ ret' = r
  /\ pc' = "idle"
  /\ todo' = todo - 1
  /\ steps' = steps + 1
  /\ IF todo = 1
     THEN out' = r /\ pulls' = pulls + 1 /\ cst' = "ready"
     ELSE UNCHANGED <<out, pulls, cst>>
  /\ UNCHANGED skip_n

(***************************************************************************)
(* univar::slice, the slice sampler.                                       *)
(***************************************************************************)
\* The match guard of next(): y > 0.0 && y.is_finite()
PositiveFiniteAs(y) == FGt(y, Fin(0))
PositiveFinite(y) == FGt(y, Fin(0)) /\ is_finite(y)

\* self.aux.gen_range(0.0..=y): any value of [0, y] (y is finite here)
GenRangeIncl(y) == IF is_finite(y) THEN {Fin(j) : j \in 0..y.v} ELSE {y}

\* The predicate of skip_while: (self.pdf)(x) < y
SkipsAs(p, y) == ~FGt(p, y)
Skips(p, y) == FLt(p, y)

\* Method::sample(pdf): state: D::uniform().next(), then .skip(self.1)
SliceSample ==
  /\ method = "slice"
  /\ cst = "new"
  /\ \E v \in ChainDom : state' = Some(v)
  /\ skip_n' = skip
  /\ cst' = "ready"
  /\ UNCHANGED <<method, skip, pdf, pc, ret, slice_vars, gibbs_vars>>
  /\ UNCHANGED <<todo, steps, pulls, out>>
  /\ UNCHANGED <<dom_vars, icdf_vars>>

\* next() entered from Skip: self.state.take() (the state is always Some here)
SliceBegin ==
  /\ method = "slice"
  /\ pc = "idle"
  /\ todo > 0
  /\ state # None
  /\ cur' = state
  /\ start' = state
  /\ state' = None
  /\ level' = None
  /\ rejected' = None
  /\ recursed' = FALSE
  /\ pc' = "match"
  /\ UNCHANGED <<method, skip, pdf, ret, gibbs_vars, skip_vars>>
  /\ UNCHANGED <<dom_vars, icdf_vars>>

\* match (self.pdf)(&x): the arm y > 0.0 && y.is_finite() draws the level
SliceLevel ==
  /\ method = "slice"
  /\ pc = "match"
  /\ PositiveFinite(pdf[cur.val + 1])
  /\ \E y \in GenRangeIncl(pdf[cur.val + 1]) : level' = Some(y)
  /\ pc' = "scan"
  /\ UNCHANGED <<method, skip, pdf, state, ret, cur, rejected, start, recursed>>
  /\ UNCHANGED <<gibbs_vars, skip_vars, dom_vars, icdf_vars>>

\* the arm _ => self.next(): the state was taken, so the nested call draws
\* D::uniform().next() and matches its density
SliceRecurse(v) ==
  /\ method = "slice"
  /\ pc = "match"
  /\ ~PositiveFinite(pdf[cur.val + 1])
  /\ cur' = Some(v)
  /\ recursed' = TRUE
  /\ UNCHANGED <<method, skip, pdf, state, pc, ret, level, rejected, start>>
  /\ UNCHANGED <<gibbs_vars, skip_vars, dom_vars, icdf_vars>>

\* D::uniform().skip_while(|x| (self.pdf)(x) < y): candidate c is skipped
SliceSkip(c) ==
  /\ method = "slice"
  /\ pc = "scan"
  /\ Skips(pdf[c + 1], level.val)
  /\ rejected' = Some(c)
  /\ UNCHANGED <<method, skip, pdf, state, pc, ret, cur, level, start, recursed>>
  /\ UNCHANGED <<gibbs_vars, skip_vars, dom_vars, icdf_vars>>

\* .next() of the skip_while: candidate c becomes self.state in every
\* frame of next() and is returned
SliceAdopt(c) ==
  /\ method = "slice"
  /\ pc = "scan"
  /\ ~Skips(pdf[c + 1], level.val)
  /\ state' = Some(c)
  /\ InnerReturn(Some(c))
  /\ UNCHANGED <<method, skip, pdf, slice_vars, gibbs_vars>>
  /\ UNCHANGED <<dom_vars, icdf_vars>>

SliceNext ==
  \/ SliceSample
  \/ SkipNext
  \/ SliceBegin
  \/ SliceLevel
  \/ \E v \in ChainDom : SliceRecurse(v)
  \/ \E c \in ChainDom : SliceSkip(c)
  \/ \E c \in ChainDom : SliceAdopt(c)

(***************************************************************************)
(* multivar::gibbs, the Gibbs sampler, with univar::icdf as sub-sampler.   *)
(***************************************************************************)
\* a * b
FMul(a, b) ==
  IF a.k = "nan" \/ b.k = "nan" THEN NaN
  ELSE IF a.k = "inf" \/ b.k = "inf"
       THEN (IF a = Fin(0) \/ b = Fin(0) THEN NaN ELSE PInf)
       ELSE Fin(a.v * b.v)

\* The joint density at array xs: the product, or the sum, of a weight per
\* coordinate value
RECURSIVE Joint(_, _, _)
Joint(d, xs, i) ==
  IF i = 0 THEN (IF d.kind = "prod" THEN Fin(1) ELSE Fin(0))
  ELSE IF d.kind = "prod"
       THEN FMul(Joint(d, xs, i - 1), d.w[xs[i] + 1])
       ELSE FAdd(Joint(d, xs, i - 1), d.w[xs[i] + 1])

\* What (self.pdf)(&state) reads at the coordinate that value points to,
\* after *value = x.clone(). value is a &mut D made from state.as_mut_ptr()
\* and is live while the element is read through &state: the two alias, so
\* the read is undefined behaviour. It reads from the store of the trial
\* value when the store is performed before the read, and from the content
\* the coordinate had at the start of its update when the store is moved
\* past the read (the write goes through a noalias pointer).
Reads(old, trial, from) == IF from = "start" THEN old ELSE trial

\* Where the evaluations of one update read the coordinate from, one entry
\* for each trial value of the traversal; the scan is one loop, compiled
\* one way for all its iterations
Orders ==
  {[k \in 1..Len(IntXTraverse(MaxN)) |-> from] : from \in {"trial", "start"}}

\* The weights the sub-sampler's closure returns over the traversal:
\* *value = x.clone(); (self.pdf)(&state), the k-th evaluation reading
\* coordinate i from rf[k]
Conditional(d, arr, i, rf) ==
  LET t == IntXTraverse(MaxN) IN
  [k \in 1..Len(t) |->
     Joint(d, [arr EXCEPT ![i + 1] = Reads(arr[i + 1], t[k], rf[k])], Len(arr))]

\* .or_else(|| D::uniform().next()) applied to the sub-sampler's item
OrElseUniformAs(got) == {got}
OrElseUniform(got) == IF got = None THEN {Some(v) : v \in ChainDom} ELSE {got}

\* iter_mut() is exhausted after the last coordinate
SweepDoneAs(i, n) == i >= n - 1
SweepDone(i, n) == i >= n

\* Method::sample(pdf): the array of draws of one D::uniform(), then .skip(self.3)
GibbsSample ==
  /\ method = "gibbs"
  /\ cst = "new"
  /\ \E a \in [1..MaxLen -> ChainDom] : state' = Some(a)
  /\ skip_n' = skip
  /\ cst' = "ready"
  /\ UNCHANGED <<method, skip, pdf, pc, ret, slice_vars, gibbs_vars>>
  /\ UNCHANGED <<todo, steps, pulls, out>>
  /\ UNCHANGED <<dom_vars, icdf_vars>>

\* next() entered from Skip: if let Some(mut state) = Option::take(&mut self.state)
GibbsBegin ==
  /\ method = "gibbs"
  /\ pc = "idle"
  /\ todo > 0
  /\ IF state # None
     THEN /\ work' = state.val
          /\ state' = None
          /\ idx' = 0
          /\ new_state' = <<>>
          /\ visited' = <<>>
          /\ fell' = {}
          /\ seen' = <<>>
          /\ pc' = "sweep"
          /\ UNCHANGED <<ret, skip_vars>>
     ELSE /\ InnerReturn(None)
          /\ UNCHANGED <<state, gibbs_vars>>
  /\ UNCHANGED <<method, skip, pdf, slice_vars>>
  /\ UNCHANGED <<dom_vars, icdf_vars>>

\* One coordinate of the sweep whose sub-sampler is built: item is what
\* self.sub.sample(..).next() gives, new what .or_else(..) makes of it, rf
\* where the evaluations read the coordinate from; without a new value the
\* coordinate keeps the last trial value written
GibbsStore(item, rf) ==
  \E new \in OrElseUniform(item) :
    /\ work' = [work EXCEPT ![idx + 1] =
                  IF new # None THEN new.val
                  ELSE IntXTraverse(MaxN)[Len(IntXTraverse(MaxN))]]
    /\ seen' = rf
    /\ new_state' = Append(new_state, new)
    /\ visited' = Append(visited, idx)
    /\ fell' = IF item = None THEN fell \cup {idx} ELSE fell
    /\ idx' = idx + 1
    /\ UNCHANGED <<method, skip, pdf, state, pc, ret, slice_vars, skip_vars>>
    /\ UNCHANGED <<dom_vars, icdf_vars>>

\* One coordinate of the sweep: self.sub.sample(closure) builds the table
\* over the trial values (or fails its assertion), .next() draws from it
\* (sum > 0.0) or yields nothing (the arm _ => None)
GibbsCoord ==
  /\ method = "gibbs"
  /\ pc = "sweep"
  /\ ~SweepDone(idx, Len(work))
  /\ \E rf \in Orders : \E ps \in {Conditional(pdf, work, idx, rf)} :
       IF ScanPanics(ps)
       THEN /\ pc' = "panic"
            /\ UNCHANGED <<method, skip, pdf, state, ret, slice_vars, gibbs_vars, skip_vars>>
            /\ UNCHANGED <<dom_vars, icdf_vars>>
       ELSE \E table \in {BuildCdf(IntXTraverse(MaxN), ps)} :
              IF FGt(table[Len(table)][2], Fin(0))
              THEN \E value \in GenRange(table[Len(table)][2]) :
                     \E pos \in {binary_search_by(build, table, value)} :
                       /\ pos # Panic
                       /\ GibbsStore(GetValue(table, pos.pos), rf)
              ELSE GibbsStore(None, rf)

\* .collect() into Option<Vec<D>>: None if some item is None
Collect(items) ==
  IF \E i \in 1..Len(items) : items[i] = None THEN None
  ELSE Some([i \in 1..Len(items) |-> items[i].val])

\* After the sweep: self.state = from_shape_vec(dim, new_state).ok() when
\* new_state is Some; return self.state.clone()
GibbsEnd ==
  /\ method = "gibbs"
  /\ pc = "sweep"
  /\ SweepDone(idx, Len(work))
  /\ LET collected == Collect(new_state)
         after == IF collected # None /\ Len(collected.val) = Len(work)
                  THEN collected ELSE state
     IN /\ state' = after
        /\ InnerReturn(after)
  /\ UNCHANGED <<method, skip, pdf, slice_vars, gibbs_vars>>
  /\ UNCHANGED <<dom_vars, icdf_vars>>

GibbsNext ==
  \/ GibbsSample
  \/ SkipNext
  \/ GibbsBegin
  \/ GibbsCoord
  \/ GibbsEnd

(***************************************************************************)
(* Initial states: the program under test and its inputs.                  *)
(***************************************************************************)
\* The values a density may take at a point
SliceWeights == {Fin(0), Fin(1), Fin(2), NaN, PInf}

\* Zero everywhere except at the two boundary values of X<N>
IllShaped == [i \in 1..MaxN |-> IF i = 1 \/ i = MaxN THEN Fin(1) ELSE Fin(0)]

\* Undefined (NaN) at the first value of the domain
NaNFirst == [i \in 1..MaxN |-> IF i = 1 THEN NaN ELSE Fin(1)]

\* A few densities for the chains: positive at the boundary values, at all
\* values, at none, and undefined at one
BurnWeights ==
  {IllShaped, [i \in 1..MaxN |-> Fin(1)], [i \in 1..MaxN |-> Fin(0)], NaNFirst}

\* The joint densities: the product (the ill_shaped test is the exponential
\* of a sum) and the sum (the test of lib.rs) of the weights of the
\* coordinates
GibbsDensities(kinds, ws) == [kind : kinds, w : ws]

InitOf(prog, methods, skips, sws, gws) ==
  /\ dty \in (IF prog = "domain" THEN DomTypes ELSE {"IntX"})
  /\ dn \in (IF prog = "domain" /\ dty \notin NumTypes THEN 1..MaxN ELSE {1})
  /\ trav = None
  /\ draw = None
  /\ build \in (IF prog = "domain" THEN {"early"} ELSE Builds)
  /\ icdf_n \in (IF prog = "icdf" THEN 1..MaxN ELSE {1})
  /\ icdf_pdf \in (IF prog = "icdf" THEN [1..icdf_n -> IcdfWeights] ELSE {<<Fin(0)>>})
  /\ cdf = <<>>
  /\ icdf_st = (IF prog = "icdf" THEN "new" ELSE "idle")
  /\ icdf_u = None
  /\ icdf_pos = None
  /\ icdf_ret = None
  /\ method \in (IF prog = "chain" THEN methods ELSE {"none"})
  /\ skip \in (IF prog = "chain" THEN skips ELSE {0})
  /\ pdf \in (CASE method = "slice" -> sws
                [] method = "gibbs" -> gws
                [] OTHER -> {<<>>})
  /\ state = None
  /\ pc = "idle"
  /\ ret = Unset
  /\ cur = None /\ level = None /\ rejected = None /\ start = None /\ recursed = FALSE
  /\ idx = 0 /\ work = <<>> /\ new_state = <<>> /\ visited = <<>> /\ fell = {}
  /\ seen = <<>>
  /\ skip_n = 0 /\ todo = 0 /\ steps = 0 /\ pulls = 0 /\ out = Unset
  /\ cst = (IF prog = "chain" THEN "new" ELSE "idle")

DomInit == InitOf("domain", {}, {}, {}, {})
IcdfInit == InitOf("icdf", {}, {}, {}, {})
SliceInit == InitOf("chain", {"slice"}, {0}, [1..MaxN -> SliceWeights], {})
GibbsInit ==
  InitOf("chain", {"gibbs"}, {0}, {}, GibbsDensities({"prod", "sum"}, BurnWeights))
BurnInit ==
  InitOf("chain", {"slice", "gibbs"}, 0..MaxSkip, BurnWeights,
         GibbsDensities({"prod", "sum"}, {IllShaped, NaNFirst}))
IllInit ==
  InitOf("chain", {"slice", "gibbs"}, {0}, {IllShaped},
         GibbsDensities({"prod"}, {IllShaped}))

SpecDomain == DomInit /\ [][DomNext]_vars
SpecIcdf == IcdfInit /\ [][IcdfNext]_vars
SpecSlice == SliceInit /\ [][SliceNext]_vars
SpecGibbs == GibbsInit /\ [][GibbsNext]_vars
SpecBurn == BurnInit /\ [][SliceNext \/ GibbsNext]_vars

\* A step of next() that draws no domain value
Step ==
  \/ SliceBegin
  \/ SliceLevel
  \/ GibbsBegin
  \/ GibbsCoord
  \/ GibbsEnd

\* The slice sampler's D::uniform() yields v
Draw(v) == SliceRecurse(v) \/ SliceSkip(v) \/ SliceAdopt(v)

\* The program runs on once a pull has begun, and each value of the domain
\* keeps being drawn by D::uniform().
Fairness == WF_vars(Step) /\ \A v \in ChainDom : WF_vars(Draw(v))

FairIll == IllInit /\ [][SliceNext \/ GibbsNext]_vars /\ Fairness

(***************************************************************************)
(* Claims about the domains (SpecDomain).                                  *)
(***************************************************************************)
\* x < y for two values of the domain type
DomLess(ty, x, y) == IF ty = "FloatX" THEN x[1] * y[2] < y[1] * x[2] ELSE x < y

\* C8: for the built-in integer types, every value uniform() can produce
\* appears in the output of traverse().
C8_UniformInTraverse ==
  (dty \in NumTypes /\ trav # None /\ draw # None)
    => draw.val \in SeqRange(trav.val)

\* C10: traverse() on X<N> (integer and float) and iter() on Z<N> yield
\* exactly N distinct values, ascending, one for each index 0..N-1 (the
\* bucket k/N for the float variant), and every uniform() / random() draw
\* is one of them.
C10_CoverageRoundTrip ==
  (dty \in {"IntX", "FloatX", "Z"} /\ trav # None) =>
    LET t == trav.val IN
    /\ Len(t) = dn
    /\ Cardinality(SeqRange(t)) = dn
    /\ \A i \in 1..Len(t) : \A j \in 1..Len(t) : i < j => DomLess(dty, t[i], t[j])
    /\ \A k \in 0..(dn - 1) :
         IF dty = "FloatX"
         THEN t[k + 1][1] * dn = k * t[k + 1][2] /\ t[k + 1][2] > 0
         ELSE t[k + 1] = k
    /\ draw # None => draw.val \in SeqRange(t)

C10_Witness ==
  /\ dty = "FloatX" /\ dn = MaxN /\ trav # None
  /\ draw # None /\ draw.val[1] * dn = (dn - 1) * draw.val[2]

(***************************************************************************)
(* Claims about the inverse-transform sampler (SpecIcdf).                  *)
(***************************************************************************)
NonNegWeights == \A i \in 1..icdf_n : is_finite(icdf_pdf[i]) /\ icdf_pdf[i].v >= 0

\* The sum of the weights over the enumerated domain
Total == ScanSum(icdf_pdf, icdf_n)

\* The first index, in traversal order, whose cumulative sum is >= u
FirstGe(s, u) ==
  CHOOSE i \in 1..Len(s) :
    FGe(s[i][2], u) /\ \A j \in 1..(i - 1) : ~FGe(s[j][2], u)

\* C1: with non-negative weights of positive finite total, next() returns
\* the value at the first index whose cumulative sum is >= the draw u; ties
\* between equal cumulative sums go to the lowest index.
C1_FirstIndexAtOrAbove ==
  (icdf_st = "sampler" /\ icdf_u # None /\ NonNegWeights)
    => icdf_ret = Some(Some(cdf[FirstGe(cdf, icdf_u.val)][1]))

\* C2 as stated: whenever the total weight is not strictly positive or not
\* finite, sample(pdf) aborts and no sampler is handed back.
C2_AbortsUnlessPositiveFinite ==
  (icdf_st \in {"sampler", "panic"} /\ ~(is_finite(Total) /\ Total.v > 0))
    => icdf_st = "panic"

\* C2 as amended: sample(pdf) aborts exactly when the running sum is not
\* finite; with a finite total that is not strictly positive the sampler is
\* handed back and every pull of it returns None.
C2_AbortsOnlyOnNonFinite ==
  /\ icdf_st \in {"sampler", "panic"} => (icdf_st = "panic" <=> ~is_finite(Total))
  /\ (icdf_st = "sampler" /\ ~(Total.v > 0) /\ icdf_ret # None)
       => icdf_ret = Some(None)

C2_Witness ==
  /\ icdf_st = "sampler" /\ Total = Fin(0) /\ icdf_n = MaxN
  /\ icdf_ret = Some(None)

(***************************************************************************)
(* Claims about the slice sampler (SpecSlice).                             *)
(***************************************************************************)
\* The density at a value of the domain (slice sampler)
PdfAt(v) == pdf[v + 1]

\* Zero or non-finite: not a positive finite number
Degenerate(p) == p.k # "fin" \/ p.v <= 0

\* C3: in a pull whose current state has positive finite density the level
\* y lies in [0, pdf(state)], every candidate discarded has pdf < y, and the
\* state adopted and returned is a candidate c with pdf(c) >= y.
C3_AdoptsFirstAtOrAboveLevel ==
  (method = "slice" /\ start # None /\ ~Degenerate(PdfAt(start.val))) =>
    /\ pc \in {"scan", "idle"} =>
         FGe(level.val, Fin(0)) /\ FGe(PdfAt(start.val), level.val)
    /\ (pc = "scan" /\ rejected # None) => FLt(PdfAt(rejected.val), level.val)
    /\ pc = "idle" =>
         ret = state /\ ret # None /\ FGe(PdfAt(ret.val), level.val)

C5_SweepProtocol ==
  method = "gibbs" =>
    /\ pc = "sweep" =>
         /\ state = None
         /\ idx <= MaxLen
         /\ visited = RangeSeq(0, idx)
         /\ Len(new_state) = idx
    /\ (pc = "idle" /\ ret # Unset) =>
         /\ visited = RangeSeq(0, MaxLen)
         /\ Len(new_state) = MaxLen
         /\ ret # None /\ ret = state
         /\ state.val = work
         /\ \A i \in 1..MaxLen : new_state[i] = Some(state.val[i])

C5_Witness ==
  /\ method = "gibbs" /\ pc = "idle" /\ cst = "ready" /\ pulls = MaxPulls
  /\ visited = RangeSeq(0, MaxLen) /\ ret = state /\ state # None

\* The joint density is finite at every array
FiniteDensity == \A k \in 1..MaxN : is_finite(pdf.w[k])

\* C6: when a coordinate's sub-sampler yields nothing, the coordinate is
\* set to a draw from the base domain, the sweep goes on over the remaining
\* coordinates, and the pull yields a full array that stays the sampler's
\* state; nothing fails (for a density that is finite everywhere).
C6_FallbackOnExhaustion ==
  (method = "gibbs" /\ fell # {} /\ FiniteDensity) =>
    /\ pc \in {"sweep", "idle"}
    /\ \A i \in fell :
         /\ i < idx
         /\ new_state[i + 1] # None
         /\ new_state[i + 1].val \in ChainDom
         /\ pc = "sweep" => work[i + 1] = new_state[i + 1].val
    /\ pc = "idle" =>
         /\ idx = MaxLen
         /\ ret # None /\ ret # Unset /\ ret = state
         /\ Len(ret.val) = MaxLen
         /\ \A j \in 1..MaxLen : ret.val[j] \in ChainDom

C6_Witness ==
  /\ method = "gibbs" /\ FiniteDensity /\ 0 \in fell
  /\ pc = "idle" /\ cst = "ready" /\ pulls = MaxPulls /\ ret = state /\ state # None

(***************************************************************************)
(* Claims about the burn-in (SpecBurn).                                    *)
(***************************************************************************)
\* C7: with skip count K the n-th item delivered to the caller is the item
\* returned by the (K+n)-th next() of the chain sampler: nothing of the
\* first K is delivered, and after them every pull of the caller is one
\* step of the chain.
C7_BurnInPrefix ==
  method \in {"slice", "gibbs"} =>
    /\ pulls = 0 => out = Unset
    /\ cst = "pulling" => steps + todo = skip + pulls + 1
    /\ (cst = "ready" /\ pulls >= 1) => steps = skip + pulls /\ out = ret

C7_Witness ==
  /\ method = "gibbs" /\ skip = MaxSkip /\ cst = "ready" /\ pulls = MaxPulls
  /\ steps = MaxSkip + MaxPulls /\ out = ret /\ out # None

(***************************************************************************)
(* Claims about the degenerate density (FairIll).                          *)
(***************************************************************************)
\* The item lies in the valid range of the domain
InDomain(item) ==
  /\ item # None
  /\ IF method = "slice" THEN item.val \in 0..(MaxN - 1)
     ELSE \A j \in 1..Len(item.val) : item.val[j] \in 0..(MaxN - 1)

\* C9: with a density that is zero except at the two boundary values of
\* X<N>, every pull of the slice sampler and of the Gibbs sampler returns
\* under fair draws, nothing panics, and the item returned is in the
\* domain's range.
C9_IllShapedPullsReturn ==
  /\ [](pc # "panic")
  /\ [](out # Unset => InDomain(out))
  /\ (cst = "pulling") ~> (cst = "ready")

C9_Witness ==
  /\ method = "slice" /\ cst = "ready" /\ pulls = MaxPulls
  /\ recursed /\ rejected # None /\ InDomain(out)

C12_ReturnsPositiveWeight ==
  (icdf_st = "sampler" /\ icdf_ret # None /\ NonNegWeights /\ Total.v > 0) =>
    /\ icdf_u # None
    /\ icdf_ret.val # None
    /\ icdf_ret.val.val \in SeqRange(IntXTraverse(icdf_n))
    /\ FGt(icdf_pdf[icdf_ret.val.val + 1], Fin(0))

====
